---- MODULE Spec2Model ----
(***************************************************************************)
(* coolpackets: one Connection (src/coolpackets/packet.py) with its        *)
(* sending threads, its receive loop, explicit close calls and the peer    *)
(* at the other end of the socket.                                         *)
(***************************************************************************)
EXTENDS Integers, Sequences, FiniteSets, TLC

(* ---------------------------------------------------------------- bounds *)
\* number of application threads that call Connection.send
NumSenders == 2
\* send calls made on the connection (all threads together)
MaxSends == 2
\* explicit Connection.close calls made by the application
MaxCloses == 1
\* frames the peer sends on its own (not as an answer to a request)
MaxPeerSends == 1
\* accesses of the req_id property after the counter's cycle is complete
WrapSlack == 2
\* packet classes alive at a time
MaxClasses == 2

(* ------------------------------------------------------ program constants *)
\* 256 ** 2: "2 bytes for the request id"
IdSpace == 65536
\* the longest type identifier that "bytes([len(packet_name)])" accepts
MaxNameLen == 255
\* Python's None where an integer is expected (respond_to, a local not yet set)
NoId == -1

\* the frame send builds is "data_len + data": sendall may hand it to the socket
\* piece by piece, the length prefix before the payload
FramePieces == <<"data_len", "data">>

(* ----------------------------------------------------------------- threads *)
\* the thread started by Connection.__init__ that runs _recv
RecvThread == 0
\* threads of the application that call send
Senders == 1 .. NumSenders
\* the thread of the application that calls close
AppThread == NumSenders + 1
Threads == {RecvThread} \cup Senders \cup {AppThread}

(* ---------------------------------------------------------- packet classes *)
\* a class made by the metaclass PacketManager: its identity, its __name__, the
\* class attributes _alias, _packet_group and _unregistered, and the number of
\* its bases (0 for a class declared like Packet itself)
PacketClass(id, name, alias, group, unregistered, bases) ==
  [id |-> id, name |-> name, _alias |-> alias, _packet_group |-> group,
   _unregistered |-> unregistered, bases |-> bases]

\* PacketManager.__str__: "if self._alias: return self._alias" else __name__
alias_of(cls) == IF cls._alias # "" THEN cls._alias ELSE cls.name

\* None where a class is expected
NoClass == PacketClass(0, "", "", "", FALSE, 0)

\* the packet classes of the application that uses the connection
Ping == PacketClass(1, "Ping", "", "*", FALSE, 1)
Pong == PacketClass(2, "Pong", "", "*", FALSE, 1)
Admin == PacketClass(3, "Admin", "", "admin", FALSE, 1)
Debug == PacketClass(4, "Debug", "", "debug", FALSE, 1)
AppClasses == {Ping, Pong, Admin, Debug}

\* the argument packet_groups of Connection.__init__
given_groups == {"admin"}
\* Connection.packet_groups: "packet_groups | {'*'}"
packet_groups == given_groups \cup {"*"}

VARIABLES
  registered_packets,  \* PacketManager.registered_packets: the set of its items
  classes,             \* the classes made by PacketManager that are alive
  on_close,            \* Connection.on_close: what the callback does
  frame_args,          \* Connection.send's arguments, as far as the frame goes
  frame_bytes,         \* "data_len + data" as send built it
  frame_parsed,        \* the locals of _recv once the frame is parsed
  packet,              \* a call of a packet class and what came of it
  packet_bytes,        \* what Packet.encode returned for it
  packet_decoded,      \* what Packet.decode made of that
  closed,              \* Connection.closed
  sock_open,           \* Connection.sock is open (sock.close() not yet called)
  lock,                \* Connection.lock: the thread holding it, or NoId
  _req_id,             \* Connection._req_id
  response_callbacks,  \* Connection.response_callbacks: the set of its items
  pc,                  \* where each thread is
  req_id,              \* send's local req_id, per sending thread
  on_resp,             \* send's argument on_resp: the callback, or NoId for None
  written,             \* pieces of the frame sendall has handed to the socket
  emit_event,          \* close's argument emit_event, per closing thread
  result,              \* how a thread's last send call ended
  wire,                \* what the socket has been given, in order
  stream,              \* the inbound stream: "open", "eof" or "error"
  inbox,               \* frames the peer has sent that _recv has not read
  cur,                 \* the frame _recv is working on
  empty_reads,         \* times sock.recv returned b'' to _recv_all, modulo 2
  events,              \* on_recv hooks and callbacks run, warnings logged by _recv
  on_close_calls,      \* times on_close was called
  allocs,              \* request ids allocated so far
  calls,               \* send calls started so far
  closes,              \* explicit close calls started so far
  y_pos,               \* pieces of the wire the peer has read
  y_req_id,            \* the peer connection's own _req_id
  peer_sends           \* frames the peer has sent on its own

vars == <<registered_packets, classes, on_close, frame_args, frame_bytes,
          frame_parsed, packet, packet_bytes, packet_decoded, closed, sock_open, lock, _req_id, response_callbacks, pc, req_id,
          on_resp, written, emit_event, result, wire, stream, inbox, cur,
          empty_reads, events, on_close_calls, allocs, calls, closes, y_pos, y_req_id,
          peer_sends>>

\* what no step of the connection changes
registry_vars == <<registered_packets, classes>>
frame_vars == <<frame_args, frame_bytes, frame_parsed>>
packet_vars == <<packet, packet_bytes, packet_decoded>>
fixed_vars == <<registry_vars, on_close, frame_vars, packet_vars>>
conn_vars == <<closed, sock_open, lock, _req_id, response_callbacks>>
send_vars == <<req_id, on_resp, written, result, wire, allocs, calls>>
recv_vars == <<inbox, cur, events, empty_reads>>
peer_vars == <<stream, y_pos, y_req_id, peer_sends>>
\* the connection, its threads and its peer
connection_vars == <<on_close, conn_vars, send_vars, recv_vars, peer_vars, pc,
                     emit_event, on_close_calls, closes>>

\* no frame
NoFrame == [req_id |-> NoId, respond_to |-> NoId, type |-> "", body |-> "",
            whole |-> FALSE]

\* no send call whose frame is looked at, no frame parsed
NoFrameArgs == [req_id |-> NoId, respond_to |-> NoId, packet_name |-> << >>,
                packet_data |-> << >>]
NoParsed == [packet_len |-> NoId, req_id |-> NoId, response_to |-> NoId,
             packet_type |-> << >>, packet_msg |-> << >>]

\* a Python value: its type and what it holds (the number, the items)
IntValue(n) == [kind |-> "int", items |-> <<n>>]
TupleValue(items) == [kind |-> "tuple", items |-> items]
ListValue(items) == [kind |-> "list", items |-> items]
None == [kind |-> "none", items |-> << >>]

\* no call of a packet class, nothing encoded
NoPacket == [schema |-> {}, kwargs |-> << >>, ok |-> FALSE, error |-> "",
             fields |-> {}]
NoValue == {[key |-> "", value |-> [kind |-> "", items |-> << >>]]}

\* registered_packets once the classes cs were declared, none colliding
registry_of(cs) == {[key |-> alias_of(c), value |-> c] : c \in cs}

\* Connection.__init__ (the receive thread is started and about to read)
ConnectionInit ==
  /\ closed = FALSE
  /\ sock_open = TRUE
  /\ lock = NoId
  /\ _req_id = -1
  /\ response_callbacks = {}
  /\ pc = [t \in Threads |-> IF t = RecvThread THEN "len" ELSE "idle"]
  /\ req_id = [t \in Senders |-> NoId]
  /\ on_resp = [t \in Senders |-> NoId]
  /\ written = [t \in Senders |-> 0]
  /\ emit_event = [t \in Threads |-> FALSE]
  /\ result = [t \in Senders |-> "none"]
  /\ wire = << >>
  /\ stream = "open"
  /\ inbox = << >>
  /\ cur = NoFrame
  /\ empty_reads = 0
  /\ events = << >>
  /\ on_close_calls = 0
  /\ allocs = 0
  /\ calls = 0
  /\ closes = 0
  /\ y_pos = 0
  /\ y_req_id = -1
  /\ peer_sends = 0

\* no frame and no packet is being looked at on its own
CodecInit ==
  /\ frame_args = NoFrameArgs
  /\ frame_bytes = << >>
  /\ frame_parsed = NoParsed
  /\ packet = NoPacket
  /\ packet_bytes = NoValue
  /\ packet_decoded = NoPacket

\* the application has declared its packet classes and made the connection
\* with the default on_close, "lambda conn: None"
Init ==
  /\ ConnectionInit
  /\ classes = AppClasses
  /\ registered_packets = registry_of(AppClasses)
  /\ on_close = "return"
  /\ CodecInit

(* ------------------------------------------------- response_callbacks dict *)
\* key in response_callbacks
has_callback(d, key) == \E item \in d : item.key = key
\* response_callbacks[key]
get_callback(d, key) == (CHOOSE item \in d : item.key = key).value
\* del response_callbacks[key]
del_callback(d, key) == {item \in d : item.key # key}
\* response_callbacks[key] = value
set_callback(d, key, value) ==
  del_callback(d, key) \cup {[key |-> key, value |-> value]}

(* ----------------------------------------------------------- PacketManager *)
\* "alias in mcs.registered_packets"
is_registered(reg, alias) == \E item \in reg : item.key = alias
\* "PacketManager.registered_packets.get(packet_type)": the class, or None
registry_get(reg, alias) ==
  IF is_registered(reg, alias)
  THEN (CHOOSE item \in reg : item.key = alias).value
  ELSE NoClass

\* register with a class that replaces the one already under its identifier
register_overwrite(reg, cls) ==
  IF cls.bases > 0 /\ ~cls._unregistered
  THEN {item \in reg : item.key # alias_of(cls)}
         \cup {[key |-> alias_of(cls), value |-> cls]}
  ELSE reg

\* PacketManager.__new__, "if len(bases) > 0:": an identifier already there is
\* left alone (a warning is logged), a class with _unregistered is passed
\* over, any other class is put under its identifier
register(reg, cls) ==
  IF cls.bases > 0
  THEN IF is_registered(reg, alias_of(cls)) THEN reg
       ELSE IF cls._unregistered THEN reg
       ELSE reg \cup {[key |-> alias_of(cls), value |-> cls]}
  ELSE reg

\* PacketManager.__del__: "if self.__base__ is not object and alias in
\* PacketManager.registered_packets: del PacketManager.registered_packets[alias]"
unregister(reg, cls) ==
  IF cls.bases > 0 /\ is_registered(reg, alias_of(cls))
  THEN {item \in reg : item.key # alias_of(cls)}
  ELSE reg

\* the classes a program may declare: two names, one of them also usable as
\* the _alias of the other, with and without _unregistered, with a base
\* (a packet class) or without (a class declared like Packet itself)
ClassUniverse ==
  {PacketClass(id, name, alias, "*", unregistered, bases) :
     id \in 1 .. MaxClasses, name \in {"Ping", "Pong"}, alias \in {"", "Ping"},
     unregistered \in BOOLEAN, bases \in {0, 1}}

\* a class statement is executed: PacketManager.__new__ makes the class
declare(cls) ==
  /\ \A c \in classes : c.id # cls.id
  /\ classes' = classes \cup {cls}
  /\ registered_packets' = register(registered_packets, cls)
  /\ UNCHANGED <<connection_vars, frame_vars, packet_vars>>

\* a class nothing refers to any more (the registry does not) is collected:
\* PacketManager.__del__ runs on it
discard(cls) ==
  /\ cls \in classes
  /\ \A item \in registered_packets : item.value # cls
  /\ classes' = classes \ {cls}
  /\ registered_packets' = unregister(registered_packets, cls)
  /\ UNCHANGED <<connection_vars, frame_vars, packet_vars>>

(* ------------------------------------------------------------- frame codec *)
\* bytes[i:j] and bytes[i:] of Python
slice(b, i, j) ==
  LET hi == IF j < Len(b) THEN j ELSE Len(b) IN
    IF i >= hi THEN << >> ELSE SubSeq(b, i + 1, hi)
slice_from(b, i) == slice(b, i, Len(b))

\* struct.pack("!H", n) with the low byte first
pack_H_low_first(n) == <<n % 256, (n \div 256) % 256>>
\* struct.pack("!H", n): 2 bytes unsigned, big-endian
pack_H(n) == <<(n \div 256) % 256, n % 256>>
\* struct.unpack("!H", b)[0]
unpack_H(b) == b[1] * 256 + b[2]
\* struct.pack("!I", n): 4 bytes unsigned, big-endian
pack_I(n) ==
  <<(n \div 16777216) % 256, (n \div 65536) % 256, (n \div 256) % 256, n % 256>>
\* struct.unpack("!I", b)[0]
unpack_I(b) == ((b[1] * 256 + b[2]) * 256 + b[3]) * 256 + b[4]

\* Connection.send, from "req_id_data = ..." to "data_len = ...": the bytes
\* "data_len + data" handed to sendall
send_frame(id, respond_to, packet_name, packet_data) ==
  LET req_id_data == pack_H(id)
      respond_to_data == IF respond_to = NoId THEN <<0>>
                         ELSE <<1>> \o pack_H(respond_to)
      packet_name_len == <<Len(packet_name)>>
      data == req_id_data \o respond_to_data \o packet_name_len
                \o packet_name \o packet_data
      data_len == pack_I(Len(data))
  IN data_len \o data

\* Connection._recv, from "data_len = self._recv_all(4)" to "packet_msg = ...":
\* the locals of _recv when the bytes b are what the socket delivers
recv_frame(b) ==
  LET data_len == slice(b, 0, 4)
      packet_len == unpack_I(data_len)
      packet_data0 == slice(b, 4, 4 + packet_len)
      id == unpack_H(slice(packet_data0, 0, 2))
      packet_data1 == slice_from(packet_data0, 2)
      is_response == packet_data1[1] # 0
      response_to == IF is_response THEN unpack_H(slice(packet_data1, 1, 3))
                     ELSE NoId
      packet_data2 == IF is_response THEN slice_from(packet_data1, 3)
                      ELSE slice_from(packet_data1, 1)
      packet_type_len == packet_data2[1]
  IN [packet_len |-> packet_len,
      req_id |-> id,
      response_to |-> response_to,
      packet_type |-> slice(packet_data2, 1, packet_type_len + 1),
      packet_msg |-> slice_from(packet_data2, packet_type_len + 1)]

\* request ids at both ends and on both sides of a byte boundary
FrameIds == {0, 1, 255, 256, IdSpace - 1}
\* type identifiers as bytes: one byte, "Ping", and MaxNameLen bytes
FrameNames == {<<80>>, <<80, 105, 110, 103>>, [i \in 1 .. MaxNameLen |-> 65]}
\* packet bodies: an empty map, a map with one entry, bytes that start like a
\* frame header
FrameBodies == {<<128>>, <<129, 161, 118, 7>>, <<0, 1, 0>>}
\* what the socket delivers after the frame: nothing yet, or the start of the
\* next frame
FrameTails == {<< >>, <<0, 0, 0, 9, 255>>}

\* send builds the frame of a packet
frame_build(id, respond_to, packet_name, packet_data) ==
  /\ frame_args = NoFrameArgs
  /\ frame_args' = [req_id |-> id, respond_to |-> respond_to,
                    packet_name |-> packet_name, packet_data |-> packet_data]
  /\ frame_bytes' = send_frame(id, respond_to, packet_name, packet_data)
  /\ UNCHANGED <<connection_vars, registry_vars, frame_parsed, packet_vars>>

\* _recv at the other end parses it
frame_parse(tail) ==
  /\ frame_bytes # << >>
  /\ frame_parsed = NoParsed
  /\ frame_parsed' = recv_frame(frame_bytes \o tail)
  /\ UNCHANGED <<connection_vars, registry_vars, frame_args, frame_bytes,
                 packet_vars>>

(* ------------------------------------------------------------------ Packet *)
\* "key in d" and "d[key]" for a dict kept as the set of its items
dict_has(d, key) == \E item \in d : item.key = key
dict_get(d, key) == (CHOOSE item \in d : item.key = key).value
\* the items of **kwargs, without their order
dict_of(kwargs) == {kwargs[i] : i \in 1 .. Len(kwargs)}
\* the items of a dict in the order a loop meets them
items_of(d) ==
  CHOOSE seq \in [1 .. Cardinality(d) -> d] : {seq[i] : i \in 1 .. Len(seq)} = d

\* check_type that lets every value pass
check_type_lenient(value, expected_type) == TRUE
\* typeguard's check_type(argname, value, expected_type) does not raise
check_type(value, expected_type) ==
  CASE expected_type = "int" -> value.kind = "int"
    [] expected_type = "Optional[int]" -> value.kind \in {"int", "none"}
    [] expected_type = "Tuple[int, int]" ->
         value.kind = "tuple" /\ Len(value.items) = 2
    [] OTHER -> FALSE

\* Packet.__init__(**kwargs) on a class whose public attributes are schema: a
\* PacketInitializationFailedException (with what its message says), or the
\* attributes of the instance
construct(schema, kwargs) ==
  LET public_attrs == schema
      given == {kwargs[i].key : i \in 1 .. Len(kwargs)}
      omitted == {attr \in public_attrs : attr.key \notin given}
      missing == {attr \in omitted : ~check_type(None, attr.value)}
      raises(i) ==
        \/ ~dict_has(public_attrs, kwargs[i].key)
        \/ ~check_type(kwargs[i].value, dict_get(public_attrs, kwargs[i].key))
      raising == {i \in 1 .. Len(kwargs) : raises(i)}
      first == CHOOSE i \in raising : \A j \in raising : i <= j
      failed(error) == [schema |-> schema, kwargs |-> kwargs, ok |-> FALSE,
                        error |-> error, fields |-> {}]
  IN IF missing # {} THEN failed("MissingField")
     ELSE IF raising # {}
     THEN failed(IF dict_has(public_attrs, kwargs[first].key)
                 THEN "TypeMismatch" ELSE "UnexpectedField")
     ELSE [schema |-> schema, kwargs |-> kwargs, ok |-> TRUE, error |-> "",
           fields |-> {[key |-> attr.key, value |-> None] : attr \in omitted}
                        \cup dict_of(kwargs)]

\* Packet.public_attributes of an instance: the attributes that are not None
public_attributes(instance) == {item \in instance.fields : item.value # None}

\* msgpack.packb: int, str and nil are told apart, a tuple and a list are both
\* written as an array
packb(d) ==
  {[key |-> item.key,
    value |-> [kind |-> CASE item.value.kind \in {"tuple", "list"} -> "array"
                          [] item.value.kind = "none" -> "nil"
                          [] OTHER -> item.value.kind,
               items |-> item.value.items]] : item \in d}
\* msgpack.unpackb: an array comes back as a list
unpackb(data) ==
  {[key |-> item.key,
    value |-> [kind |-> CASE item.value.kind = "array" -> "list"
                          [] item.value.kind = "nil" -> "none"
                          [] OTHER -> item.value.kind,
               items |-> item.value.items]] : item \in data}

\* Packet.encode: "msgpack.packb(self.public_attributes)"
encode(instance) == packb(public_attributes(instance))
\* Packet.decode: "cls(**msgpack.unpackb(data))"
decode(schema, data) == construct(schema, items_of(unpackb(data)))

\* the declared types, the values and the keyword names tried
FieldTypes == {"int", "Optional[int]", "Tuple[int, int]"}
FieldValues == {IntValue(7), None, TupleValue(<<1, 2>>), ListValue(<<1, 2>>)}
FieldNames == {"value", "note"}
KwargNames == FieldNames \cup {"extra"}
\* the classes: each field declared with one of the types
Schemas ==
  {{[key |-> name, value |-> types[name]] : name \in FieldNames} :
     types \in [FieldNames -> FieldTypes]}
\* the calls: any of the names, each at most once, in any order
Kwargs ==
  {kwargs \in UNION {[1 .. n -> [key : KwargNames, value : FieldValues]] :
                       n \in 0 .. Cardinality(KwargNames)} :
     \A i, j \in 1 .. Len(kwargs) : i # j => kwargs[i].key # kwargs[j].key}

\* a packet class is called
packet_construct(schema, kwargs) ==
  /\ packet = NoPacket
  /\ packet' = construct(schema, kwargs)
  /\ UNCHANGED <<connection_vars, registry_vars, frame_vars, packet_bytes,
                 packet_decoded>>

\* the instance is encoded
packet_encode ==
  /\ packet.ok
  /\ packet_bytes = NoValue
  /\ packet_bytes' = encode(packet)
  /\ UNCHANGED <<connection_vars, registry_vars, frame_vars, packet,
                 packet_decoded>>

\* the bytes are decoded by the class of the instance
packet_decode ==
  /\ packet_bytes # NoValue
  /\ packet_decoded = NoPacket
  /\ packet_decoded' = decode(packet.schema, packet_bytes)
  /\ UNCHANGED <<connection_vars, registry_vars, frame_vars, packet,
                 packet_bytes>>

(* ------------------------------------------------------------------- close *)
\* close, first half: "with self.lock: self.closed = True; self.sock.close()"
close_enter(t) ==
  /\ pc[t] = "close"
  /\ lock = NoId
  /\ lock' = t
  /\ closed' = TRUE
  /\ sock_open' = FALSE
  /\ pc' = [pc EXCEPT ![t] = "on_close"]
  /\ UNCHANGED <<fixed_vars, _req_id, response_callbacks, send_vars, recv_vars, peer_vars,
                 emit_event, on_close_calls, closes>>

\* close, second half, with an on_close that calls send or close on the
\* connection it is given: the call is made inside "with self.lock:" of the
\* close that notifies, so it starts with that thread holding the lock
on_close_reenters(t) ==
  /\ pc[t] = "on_close"
  /\ lock = t
  /\ emit_event[t]
  /\ on_close # "return"
  /\ on_close_calls' = on_close_calls + 1
  /\ emit_event' = [emit_event EXCEPT ![t] = IF on_close = "close" THEN FALSE
                                             ELSE emit_event[t]]
  /\ pc' = [pc EXCEPT ![t] = IF on_close = "close" THEN "close" ELSE "req_id"]
  /\ UNCHANGED <<fixed_vars, conn_vars, send_vars, recv_vars, peer_vars, closes>>

\* close, second half: "if emit_event: self.on_close(self)" with an on_close
\* that returns, then the lock is released and close returns to its caller:
\* send re-raises PacketConnectionClosedException, _recv returns, the
\* application goes on
close_exit(t) ==
  /\ pc[t] = "on_close"
  /\ lock = t
  /\ emit_event[t] => on_close = "return"
  /\ on_close_calls' = IF emit_event[t] THEN on_close_calls + 1 ELSE on_close_calls
  /\ lock' = NoId
  /\ emit_event' = [emit_event EXCEPT ![t] = FALSE]
  /\ pc' = [pc EXCEPT ![t] = IF t = RecvThread THEN "done" ELSE "idle"]
  /\ result' = IF t \in Senders THEN [result EXCEPT ![t] = "raised"] ELSE result
  /\ UNCHANGED <<fixed_vars, closed, sock_open, _req_id, response_callbacks, req_id, on_resp,
                 written, wire, allocs, calls, recv_vars, peer_vars, closes>>

\* the application calls close(emit_event)
app_close(e) ==
  /\ pc[AppThread] = "idle"
  /\ closes < MaxCloses
  /\ closes' = closes + 1
  /\ emit_event' = [emit_event EXCEPT ![AppThread] = e]
  /\ pc' = [pc EXCEPT ![AppThread] = "close"]
  /\ UNCHANGED <<fixed_vars, conn_vars, send_vars, recv_vars, peer_vars, on_close_calls>>

(* -------------------------------------------------------------------- send *)
\* the req_id property: "self._req_id += 1; self._req_id %= 256 ** 2"
alloc_req_id_stuck(n) == n % IdSpace
alloc_req_id(n) == (n + 1) % IdSpace

\* the req_id property: "if self._req_id in self.response_callbacks: del ..."
evict_never(d, key) == d
evict(d, key) == del_callback(d, key)

\* a thread calls send(packet, on_resp): on_resp is a callback of its own, named
\* by the number of the call, or None. Calls are made while the first ids are
\* allocated and again once the counter has been round; the sending threads are
\* numbered in the order of their first call
send_call(t, cb) ==
  /\ pc[t] = "idle"
  /\ \A u \in Senders : u < t => (pc[u] # "idle" \/ result[u] # "none")
  /\ calls < MaxSends
  /\ allocs < MaxSends \/ allocs >= IdSpace
  /\ calls' = calls + 1
  /\ on_resp' = [on_resp EXCEPT ![t] = IF cb THEN calls + 1 ELSE NoId]
  /\ result' = [result EXCEPT ![t] = "none"]
  /\ req_id' = [req_id EXCEPT ![t] = NoId]
  /\ pc' = [pc EXCEPT ![t] = "req_id"]
  /\ UNCHANGED <<fixed_vars, conn_vars, written, wire, allocs, recv_vars, peer_vars,
                 emit_event, on_close_calls, closes>>

\* "req_id = self.req_id": the property takes the lock, allocates and lets go
send_req_id(t) ==
  /\ pc[t] = "req_id"
  /\ lock = NoId
  /\ _req_id' = alloc_req_id(_req_id)
  /\ response_callbacks' = evict(response_callbacks, _req_id')
  /\ req_id' = [req_id EXCEPT ![t] = _req_id']
  /\ allocs' = allocs + 1
  /\ pc' = [pc EXCEPT ![t] = "write"]
  /\ UNCHANGED <<fixed_vars, closed, sock_open, lock, on_resp, written, result, wire, calls,
                 recv_vars, peer_vars, emit_event, on_close_calls, closes>>

\* send_acquire with the lock taken whether or not another thread holds it
send_acquire_unlocked(t) ==
  /\ pc[t] = "write"
  /\ lock' = t
  /\ written' = [written EXCEPT ![t] = 0]
  /\ pc' = [pc EXCEPT ![t] = "sendall"]
  /\ UNCHANGED <<fixed_vars, closed, sock_open, _req_id, response_callbacks, req_id, on_resp,
                 result, wire, allocs, calls, recv_vars, peer_vars, emit_event,
                 on_close_calls, closes>>

\* "with self.lock:" of send, entered
send_acquire(t) ==
  /\ pc[t] = "write"
  /\ lock = NoId
  /\ lock' = t
  /\ written' = [written EXCEPT ![t] = 0]
  /\ pc' = [pc EXCEPT ![t] = "sendall"]
  /\ UNCHANGED <<fixed_vars, closed, sock_open, _req_id, response_callbacks, req_id, on_resp,
                 result, wire, allocs, calls, recv_vars, peer_vars, emit_event,
                 on_close_calls, closes>>

\* sock.sendall raises: the socket was closed here, or the stream is broken
send_fails == ~sock_open \/ stream = "error"

\* "self.sock.sendall(data_len + data)", inside the lock: one more piece of the
\* frame reaches the socket; after the last one the lock is released and send
\* goes on to "if on_resp:"
send_piece(t) ==
  /\ pc[t] = "sendall"
  /\ ~send_fails
  /\ wire' = Append(wire, [req_id |-> req_id[t],
                           piece |-> FramePieces[written[t] + 1],
                           sender |-> t])
  /\ IF written[t] + 1 = Len(FramePieces)
     THEN /\ lock' = NoId
          /\ written' = [written EXCEPT ![t] = 0]
          /\ pc' = [pc EXCEPT ![t] = IF on_resp[t] # NoId THEN "register"
                                                           ELSE "idle"]
          /\ result' = [result EXCEPT ![t] = IF on_resp[t] # NoId
                                              THEN "none" ELSE "returned"]
     ELSE /\ written' = [written EXCEPT ![t] = written[t] + 1]
          /\ UNCHANGED <<lock, pc, result>>
  /\ UNCHANGED <<fixed_vars, closed, sock_open, _req_id, response_callbacks, req_id, on_resp,
                 allocs, calls, recv_vars, peer_vars, emit_event, on_close_calls,
                 closes>>

\* send_raises with the callback registered although the write failed
send_raises_registers(t) ==
  /\ pc[t] = "sendall"
  /\ send_fails
  /\ lock' = NoId
  /\ written' = [written EXCEPT ![t] = 0]
  /\ response_callbacks' =
       IF on_resp[t] # NoId
       THEN set_callback(response_callbacks, req_id[t], on_resp[t])
       ELSE response_callbacks
  /\ emit_event' = [emit_event EXCEPT ![t] = TRUE]
  /\ pc' = [pc EXCEPT ![t] = "close"]
  /\ UNCHANGED <<fixed_vars, closed, sock_open, _req_id, req_id, on_resp,
                 result, wire, allocs, calls, recv_vars, peer_vars, on_close_calls,
                 closes>>

\* sendall raises ConnectionError or OSError: the lock is released, the
\* registration skipped and "self.close(True)" called by the except clause
send_raises(t) ==
  /\ pc[t] = "sendall"
  /\ send_fails
  /\ lock' = NoId
  /\ written' = [written EXCEPT ![t] = 0]
  /\ emit_event' = [emit_event EXCEPT ![t] = TRUE]
  /\ pc' = [pc EXCEPT ![t] = "close"]
  /\ UNCHANGED <<fixed_vars, closed, sock_open, _req_id, response_callbacks, req_id, on_resp,
                 result, wire, allocs, calls, recv_vars, peer_vars, on_close_calls,
                 closes>>

\* "if on_resp: self.response_callbacks[req_id] = on_resp", after the lock
send_register(t) ==
  /\ pc[t] = "register"
  /\ response_callbacks' = set_callback(response_callbacks, req_id[t], on_resp[t])
  /\ result' = [result EXCEPT ![t] = "returned"]
  /\ pc' = [pc EXCEPT ![t] = "idle"]
  /\ UNCHANGED <<fixed_vars, closed, sock_open, lock, _req_id, req_id, on_resp, written, wire,
                 allocs, calls, recv_vars, peer_vars, emit_event, on_close_calls,
                 closes>>

\* the req_id property read by the application itself (a single thread that is
\* not inside a send call): allocates an id like any other access
app_req_id ==
  /\ \A t \in Threads \ {RecvThread} : pc[t] = "idle"
  /\ lock = NoId
  /\ allocs < IdSpace + WrapSlack
  /\ _req_id' = alloc_req_id(_req_id)
  /\ response_callbacks' = evict(response_callbacks, _req_id')
  /\ allocs' = allocs + 1
  /\ UNCHANGED <<fixed_vars, closed, sock_open, lock, pc, req_id, on_resp, written, result,
                 wire, calls, recv_vars, peer_vars, emit_event, on_close_calls,
                 closes>>

(* ------------------------------------------------------------------- _recv *)
\* sock.recv raises: the socket was closed here, or the stream is broken
recv_raises == ~sock_open \/ stream = "error"

\* the stream read from its newer end
next_frame_newest(q) == q[Len(q)]
\* sock.recv hands out the bytes of the stream in the order they arrived: the
\* frame read next is the oldest one not read yet
next_frame(q) == Head(q)

\* "data_len = self._recv_all(4)": the length prefix of the next frame is read;
\* at end of stream sock.recv returns b'' and _recv_all asks again
recv_len ==
  /\ pc[RecvThread] = "len"
  /\ IF recv_raises
     THEN /\ pc' = [pc EXCEPT ![RecvThread] = "except"]
          /\ UNCHANGED <<cur, empty_reads>>
     ELSE IF inbox # << >>
     THEN /\ pc' = [pc EXCEPT ![RecvThread] = "payload"]
          /\ cur' = next_frame(inbox)
          /\ UNCHANGED empty_reads
     ELSE /\ stream = "eof"
          /\ empty_reads' = (empty_reads + 1) % 2
          /\ UNCHANGED <<pc, cur>>
  /\ UNCHANGED <<fixed_vars, conn_vars, send_vars, inbox, events, peer_vars, emit_event,
                 on_close_calls, closes>>

\* "packet_data = self._recv_all(packet_len)": the payload is read; when the
\* peer stopped in the middle of the frame, sock.recv returns b'' for ever
recv_payload ==
  /\ pc[RecvThread] = "payload"
  /\ IF recv_raises
     THEN /\ pc' = [pc EXCEPT ![RecvThread] = "except"]
          /\ UNCHANGED <<inbox, empty_reads>>
     ELSE IF cur.whole
     THEN /\ pc' = [pc EXCEPT ![RecvThread] = "decode"]
          /\ inbox' = Tail(inbox)
          /\ UNCHANGED empty_reads
     ELSE /\ stream = "eof"
          /\ empty_reads' = (empty_reads + 1) % 2
          /\ UNCHANGED <<pc, inbox>>
  /\ UNCHANGED <<fixed_vars, conn_vars, send_vars, cur, events, peer_vars, emit_event,
                 on_close_calls, closes>>

\* packet_class.decode(packet_msg) raises PacketInitializationFailedException
decode_fails(f) == f.body = "bad"

\* the group check left out
group_rejected_never(packet_class) == FALSE
\* "packet_group != "*" and packet_group not in self.packet_groups"
group_rejected(packet_class) ==
  /\ packet_class._packet_group # "*"
  /\ packet_class._packet_group \notin packet_groups

\* the receive thread ended where the frame is dropped
after_drop_ends == "dead"
\* "continue" after the warning: the loop goes on to read the next frame
after_drop == "len"

\* the frame is parsed, its type resolved and its group checked (a warning is
\* logged and the frame dropped on an unknown type or a bad group), the body
\* decoded and on_recv called; an exception of decode is not caught by _recv
\* and ends the thread
recv_decode ==
  /\ pc[RecvThread] = "decode"
  /\ LET packet_class == registry_get(registered_packets, cur.type) IN
     IF packet_class = NoClass \/ group_rejected(packet_class)
     THEN /\ events' = Append(events,
                               [ev |-> "warning", cb |-> NoId, frame |-> cur])
          /\ pc' = [pc EXCEPT ![RecvThread] = after_drop]
     ELSE IF decode_fails(cur)
     THEN /\ pc' = [pc EXCEPT ![RecvThread] = "dead"]
          /\ UNCHANGED events
     ELSE /\ events' = Append(events, [ev |-> "on_recv", cb |-> NoId, frame |-> cur])
          /\ pc' = [pc EXCEPT ![RecvThread] =
                      IF cur.respond_to # NoId THEN "check" ELSE "len"]
  /\ UNCHANGED <<fixed_vars, conn_vars, send_vars, inbox, cur, empty_reads, peer_vars,
                 emit_event,
                 on_close_calls, closes>>

\* "if response_to in self.response_callbacks:"
recv_check ==
  /\ pc[RecvThread] = "check"
  /\ pc' = [pc EXCEPT ![RecvThread] =
              IF has_callback(response_callbacks, cur.respond_to)
              THEN "invoke" ELSE "len"]
  /\ UNCHANGED <<fixed_vars, conn_vars, send_vars, recv_vars, peer_vars, emit_event,
                 on_close_calls, closes>>

\* "self.response_callbacks[response_to](packet)": the entry stays in the table;
\* a KeyError (the entry is gone since the test) ends the thread
recv_invoke ==
  /\ pc[RecvThread] = "invoke"
  /\ IF has_callback(response_callbacks, cur.respond_to)
     THEN /\ events' = Append(events,
                 [ev |-> "callback",
                  cb |-> get_callback(response_callbacks, cur.respond_to),
                  frame |-> cur])
          /\ pc' = [pc EXCEPT ![RecvThread] = "len"]
     ELSE /\ pc' = [pc EXCEPT ![RecvThread] = "dead"]
          /\ UNCHANGED events
  /\ UNCHANGED <<fixed_vars, conn_vars, send_vars, inbox, cur, empty_reads, peer_vars,
                 emit_event,
                 on_close_calls, closes>>

\* "except PacketConnectionClosedException: with self.lock: if self.closed:
\* return"; otherwise close(True) is called next, the lock released in between
recv_except ==
  /\ pc[RecvThread] = "except"
  /\ lock = NoId
  /\ IF closed
     THEN /\ pc' = [pc EXCEPT ![RecvThread] = "done"]
          /\ UNCHANGED emit_event
     ELSE /\ pc' = [pc EXCEPT ![RecvThread] = "close"]
          /\ emit_event' = [emit_event EXCEPT ![RecvThread] = TRUE]
  /\ UNCHANGED <<fixed_vars, conn_vars, send_vars, recv_vars, peer_vars, on_close_calls,
                 closes>>

(* -------------------------------------------------------------------- peer *)
\* the frames the peer may send on its own: a Pong that answers request 0 .. a
\* Pong that answers nothing, a Pong whose body does not fit the schema, a
\* frame of a type that is not registered, a frame of a group the connection
\* is in, a frame of a group it is not in
PeerFrames ==
  [respond_to : {NoId} \cup (0 .. MaxSends - 1), type : {"Pong"}, body : {"ok"}]
  \cup [respond_to : {NoId}, type : {"Pong"}, body : {"bad"}]
  \cup [respond_to : {NoId}, type : {"Nope", "Admin", "Debug"}, body : {"ok"}]

\* the peer's Connection.send: the frame goes to the stream whole, under the
\* next request id of the peer
peer_frame(respond_to, type, body, whole) ==
  [req_id |-> alloc_req_id(y_req_id), respond_to |-> respond_to, type |-> type,
   body |-> body, whole |-> whole]

\* the peer's receive loop reads the next frame of the wire and its on_recv
\* answers: "self._conn.send(packet, on_resp, self._req_id)"
peer_respond ==
  /\ stream = "open"
  /\ Len(wire) >= y_pos + Len(FramePieces)
  /\ y_pos' = y_pos + Len(FramePieces)
  /\ y_req_id' = alloc_req_id(y_req_id)
  /\ inbox' = Append(inbox, peer_frame(wire[y_pos + 1].req_id, "Pong", "ok", TRUE))
  /\ UNCHANGED <<fixed_vars, conn_vars, send_vars, pc, cur, events, empty_reads, stream,
                 peer_sends,
                 emit_event, on_close_calls, closes>>

\* the peer sends a frame on its own
peer_send(f) ==
  /\ stream = "open"
  /\ peer_sends < MaxPeerSends
  /\ peer_sends' = peer_sends + 1
  /\ y_req_id' = alloc_req_id(y_req_id)
  /\ inbox' = Append(inbox, peer_frame(f.respond_to, f.type, f.body, TRUE))
  /\ UNCHANGED <<fixed_vars, conn_vars, send_vars, pc, cur, events, empty_reads, stream,
                 y_pos,
                 emit_event, on_close_calls, closes>>

\* the peer closes the stream, between two frames or in the middle of one (the
\* length prefix sent, the payload not)
peer_close(torn) ==
  /\ stream = "open"
  /\ stream' = "eof"
  /\ inbox' = IF torn THEN Append(inbox, peer_frame(NoId, "Pong", "ok", FALSE))
                      ELSE inbox
  /\ UNCHANGED <<fixed_vars, conn_vars, send_vars, pc, cur, events, empty_reads, y_pos,
                 y_req_id,
                 peer_sends, emit_event, on_close_calls, closes>>

\* the transport fails (reset, timeout): reads and writes raise from now on
stream_error ==
  /\ stream = "open"
  /\ stream' = "error"
  /\ UNCHANGED <<fixed_vars, conn_vars, send_vars, pc, recv_vars, y_pos, y_req_id,
                 peer_sends, emit_event, on_close_calls, closes>>

(* ---------------------------------------------------------- specifications *)
SendNext(t) ==
  \/ \E cb \in BOOLEAN : send_call(t, cb)
  \/ send_req_id(t)
  \/ send_acquire(t)
  \/ send_piece(t)
  \/ send_raises(t)
  \/ send_register(t)

CloseNext ==
  \/ \E e \in BOOLEAN : app_close(e)
  \/ \E t \in Threads : close_enter(t)
  \/ \E t \in Threads : close_exit(t)

RecvNext ==
  \/ recv_len
  \/ recv_payload
  \/ recv_decode
  \/ recv_check
  \/ recv_invoke
  \/ recv_except

PeerNext ==
  \/ peer_respond
  \/ \E f \in PeerFrames : peer_send(f)
  \/ \E torn \in BOOLEAN : peer_close(torn)
  \/ stream_error

\* classes are declared and collected
RegistryNext ==
  \/ \E cls \in ClassUniverse : declare(cls)
  \/ \E cls \in ClassUniverse : discard(cls)

\* a frame is built by send and parsed by _recv
FrameNext ==
  \/ \E id \in FrameIds, respond_to \in {NoId} \cup FrameIds,
        packet_name \in FrameNames, packet_data \in FrameBodies :
          frame_build(id, respond_to, packet_name, packet_data)
  \/ \E tail \in FrameTails : frame_parse(tail)

\* a packet is made, encoded and decoded
PacketNext ==
  \/ \E schema \in Schemas, kwargs \in Kwargs : packet_construct(schema, kwargs)
  \/ packet_encode
  \/ packet_decode

Next ==
  \/ \E t \in Senders : SendNext(t)
  \/ CloseNext
  \/ \E t \in Threads : on_close_reenters(t)
  \/ RecvNext
  \/ PeerNext
  \/ app_req_id
  \/ RegistryNext
  \/ FrameNext
  \/ PacketNext

\* the whole program: every sending thread, close, the receive loop, the peer,
\* the registry and the codecs
Spec == Init /\ [][Next]_vars

\* the registry from the start of the program, before any class is declared
RegistryInit ==
  /\ ConnectionInit
  /\ classes = {}
  /\ registered_packets = {}
  /\ on_close = "return"
  /\ CodecInit

RegistrySpec == RegistryInit /\ [][RegistryNext]_vars

FrameSpec == Init /\ [][FrameNext]_vars

PacketSpec == Init /\ [][PacketNext]_vars

\* the sending side: every sending thread, close by any thread and a
\* transport failure
SendSideNext ==
  \/ \E t \in Senders : SendNext(t)
  \/ CloseNext
  \/ stream_error

SendSpec == Init /\ [][SendSideNext]_vars

\* the receiving side: one sending thread, close, the receive loop, the peer
FirstSender == CHOOSE t \in Senders : \A u \in Senders : t <= u

RecvSideNext ==
  \/ SendNext(FirstSender)
  \/ CloseNext
  \/ RecvNext
  \/ PeerNext

RecvSpec == Init /\ [][RecvSideNext]_vars

\* one application thread that sends and reads the req_id property in turn
WrapNext ==
  \/ \E cb \in BOOLEAN : send_call(FirstSender, cb)
  \/ send_req_id(FirstSender)
  \/ send_acquire(FirstSender)
  \/ send_piece(FirstSender)
  \/ send_register(FirstSender)
  \/ app_req_id

WrapSpec == Init /\ [][WrapNext]_vars

\* delivery: one thread that sends, the peer that answers and sends frames of
\* its own, and the receive loop, with no failure of the transport
DeliverNext ==
  \/ \E cb \in BOOLEAN : send_call(FirstSender, cb)
  \/ send_req_id(FirstSender)
  \/ send_acquire(FirstSender)
  \/ send_piece(FirstSender)
  \/ send_register(FirstSender)
  \/ recv_len
  \/ recv_payload
  \/ recv_decode
  \/ recv_check
  \/ recv_invoke
  \/ peer_respond
  \/ \E f \in PeerFrames : peer_send(f)

DeliverSpec == Init /\ [][DeliverNext]_vars

\* a peer that is slow to answer: one thread sends and reads the req_id
\* property until the counter has been round, then the peer answers while the
\* thread goes on
RaceNext ==
  \/ WrapNext
  \/ recv_len
  \/ recv_payload
  \/ recv_decode
  \/ recv_check
  \/ recv_invoke
  \/ allocs >= IdSpace /\ peer_respond

RaceSpec == Init /\ [][RaceNext]_vars

\* a connection made with an on_close of the application's choice: one that
\* returns, one that sends on the connection, one that closes it
OnCloseInit ==
  /\ ConnectionInit
  /\ classes = AppClasses
  /\ registered_packets = registry_of(AppClasses)
  /\ on_close \in {"return", "send", "close"}
  /\ CodecInit

OnCloseNext ==
  \/ SendSideNext
  \/ \E t \in Threads : on_close_reenters(t)

OnCloseSpec == OnCloseInit /\ [][OnCloseNext]_vars

\* the receiving side with every thread that has a step to take scheduled
\* again and again: the receive loop, a close under way, a send under way
FairRecvSpec ==
  /\ RecvSpec
  /\ WF_vars(RecvNext)
  /\ \A t \in Threads : WF_vars(close_enter(t) \/ close_exit(t))
  /\ WF_vars(\/ send_req_id(FirstSender)
             \/ send_acquire(FirstSender)
             \/ send_piece(FirstSender)
             \/ send_raises(FirstSender)
             \/ send_register(FirstSender))

(* ------------------------------------------------------------------ claims *)
\* the callbacks _recv has run, in order
CallbackEvents == SelectSeq(events, LAMBDA e : e.ev = "callback")
\* times the callback given to send call number n was run
Invocations(n) ==
  Cardinality({i \in 1 .. Len(events) :
                 events[i].ev = "callback" /\ events[i].cb = n})
\* frames answering request id that _recv has handed to on_recv
Handled(id) ==
  Cardinality({i \in 1 .. Len(events) :
                 events[i].ev = "on_recv" /\ events[i].frame.respond_to = id})
\* a frame answering request id is still to be read or is being worked on
InFlight(id) ==
  \/ \E i \in 1 .. Len(inbox) : inbox[i].respond_to = id
  \/ pc[RecvThread] \in {"decode", "check", "invoke"} /\ cur.respond_to = id

\* C1: a request sent with a callback and answered by exactly one response
\* frame has had its callback run exactly once when the send call has returned
\* and the receive loop is through with that frame
C1_AnsweredOnce ==
  \A t \in Senders :
    ( /\ result[t] = "returned"
      /\ on_resp[t] # NoId
      /\ Handled(req_id[t]) = 1
      /\ ~InFlight(req_id[t]) )
    => Invocations(on_resp[t]) = 1

\* C2: no callback given to a send call is run more than once
C2_OneShot == \A n \in 1 .. MaxSends : Invocations(n) <= 1

\* C3: on_close is called at most once over the life of the connection
C3_NotifyOnce == on_close_calls <= 1

\* positions of the wire where a frame starts
FrameStarts == {i \in 1 .. Len(wire) : wire[i].piece = FramePieces[1]}
\* the index of a piece in the frame
PieceIndex(p) == CHOOSE k \in 1 .. Len(FramePieces) : FramePieces[k] = p

\* C4: the wire is a concatenation of frames, each frame's pieces next to each
\* other and in order, every frame but the last one whole
C4_FramesContiguous ==
  \A i \in 1 .. Len(wire) :
    LET k == PieceIndex(wire[i].piece) IN
      IF k = 1
      THEN i = 1 \/ wire[i - 1].piece = FramePieces[Len(FramePieces)]
      ELSE /\ i > 1
           /\ wire[i - 1].piece = FramePieces[k - 1]
           /\ wire[i - 1].req_id = wire[i].req_id
           /\ wire[i - 1].sender = wire[i].sender

\* two threads are inside send at once, one in the middle of its frame and the
\* other waiting to write its own
C4_Witness ==
  \E t, u \in Senders :
    /\ pc[t] = "sendall" /\ written[t] > 0
    /\ pc[u] = "write"

\* C5 as stated: of two frames on the wire, the one with the earlier request id
\* was written first
C5_IdOrderIsWireOrder ==
  \A i, j \in FrameStarts : i < j => wire[i].req_id < wire[j].req_id

\* C5 amended: of two frames written by the same thread, the one with the
\* earlier request id was written first
C5_IdOrderPerThread ==
  \A i, j \in FrameStarts :
    (i < j /\ wire[i].sender = wire[j].sender) => wire[i].req_id < wire[j].req_id

\* one thread has written two frames
C5_Witness ==
  \E i, j \in FrameStarts : i < j /\ wire[i].sender = wire[j].sender

\* the frame of thread t's last send call is whole on the wire
FrameWritten(t) ==
  \E i \in 1 .. Len(wire) :
    /\ wire[i].req_id = req_id[t]
    /\ wire[i].piece = FramePieces[Len(FramePieces)]

\* C10: a send call that ended without its frame whole on the wire (the write
\* failed) ended by raising, with the connection marked closed, the socket
\* closed, on_close called and its callback not in response_callbacks
C10_FailedSend ==
  \A t \in Senders :
    (pc[t] = "idle" /\ result[t] # "none" /\ ~FrameWritten(t)) =>
      /\ result[t] = "raised"
      /\ closed
      /\ ~sock_open
      /\ on_close_calls >= Cardinality({u \in Senders : result[u] = "raised"})
      /\ \A item \in response_callbacks : item.value # on_resp[t]

\* a send call with a callback ended by raising, half of its frame written
C10_Witness ==
  \E t \in Senders :
    /\ pc[t] = "idle"
    /\ result[t] = "raised"
    /\ on_resp[t] # NoId
    /\ \E i \in 1 .. Len(wire) : wire[i].req_id = req_id[t]

\* C7: a frame whose body does not fit the schema does not end the receive
\* loop, which goes on to the frames after it
C7_SchemaErrorNonFatal ==
  (cur.whole /\ decode_fails(cur)) => pc[RecvThread] # "dead"

\* a close call has been carried out and none is under way
ClosePerformed == closed /\ \A t \in Threads : pc[t] # "on_close"

\* C8: once close has been carried out, no response callback is run
C8_NoCallbackAfterClose ==
  [][ClosePerformed => CallbackEvents' = CallbackEvents]_vars

\* the peer has closed the stream and the receive loop is waiting for bytes of
\* a frame that will not come
ReadingAtEof ==
  /\ stream = "eof"
  /\ \/ pc[RecvThread] = "len" /\ inbox = << >>
     \/ pc[RecvThread] = "payload" /\ ~cur.whole

\* C6: when the peer closes the stream while the receive loop is reading a
\* frame, the loop ends and the connection is closed with on_close called
\* (runs in which the application itself calls close are left aside: close
\* may then be asked not to notify)
C6_EofEndsLoop ==
  (ReadingAtEof /\ closes = 0)
    ~> \/ pc[RecvThread] = "done" /\ closed /\ on_close_calls > 0
       \/ closes > 0

\* C9: the n-th request id allocated is (n - 1) modulo 65536, so the ids are
\* 0, 1, ..., 65535 and then 0 again, and right after an id is allocated no
\* callback is registered under it
C9_CycleAndEvict ==
  [][allocs' = allocs + 1 =>
       /\ _req_id' = allocs % IdSpace
       /\ ~has_callback(response_callbacks', _req_id')]_vars

\* the counter has been round and is at the first id again; the send call that
\* registered a callback under that id has returned, and the callback is gone
C9_Witness ==
  /\ allocs = IdSpace + 1
  /\ _req_id = 0
  /\ result[FirstSender] = "returned"
  /\ on_resp[FirstSender] # NoId
  /\ req_id[FirstSender] = 0
  /\ ~has_callback(response_callbacks, 0)

\* the receive loop takes the step that resolves and filters the frame it read
DecodeStep == pc[RecvThread] = "decode" /\ pc'[RecvThread] # "decode"
\* the class the type identifier of that frame resolves to
Resolved == registry_get(registered_packets, cur.type)
\* the group of that class is the wildcard or one given to the connection
GroupAccepted ==
  Resolved._packet_group = "*" \/ Resolved._packet_group \in given_groups
\* the step runs the on_recv hook of the frame
HookRun ==
  /\ Len(events') = Len(events) + 1
  /\ events'[Len(events')] = [ev |-> "on_recv", cb |-> NoId, frame |-> cur]
\* the step runs no hook and no callback
NothingRun ==
  \A i \in 1 .. Len(events') :
    i > Len(events) => events'[i].ev \notin {"on_recv", "callback"}

\* C11 as stated: a frame of a known type is dropped without its hook when the
\* group of the type is not the wildcard and not one of the connection's, and
\* has its hook run in every other case
C11_GroupFilter ==
  [][(DecodeStep /\ Resolved # NoClass) =>
       IF GroupAccepted THEN HookRun ELSE NothingRun]_vars

\* C11 amended: a frame of a known type is dropped without its hook when the
\* group of the type is not the wildcard and not one of the connection's, and
\* has its hook run in every other case in which its body can be decoded
C11_GroupFilterDecodable ==
  [][(DecodeStep /\ Resolved # NoClass) =>
       IF GroupAccepted THEN (cur.body = "ok" => HookRun) ELSE NothingRun]_vars

\* a frame of a group the connection is not in was dropped and a frame of the
\* wildcard group delivered
C11_Witness ==
  /\ \E i \in 1 .. Len(events) :
       events[i].ev = "warning" /\ events[i].frame.type = "Debug"
  /\ \E i \in 1 .. Len(events) :
       events[i].ev = "on_recv" /\ events[i].frame.type = "Pong"

\* the receive loop has dropped a frame
Warned == \E i \in 1 .. Len(events) : events[i].ev = "warning"
\* a frame the receive loop delivers: whole, of a known type and an accepted
\* group, with a body that fits the schema
ValidFrame(f) ==
  LET cls == registry_get(registered_packets, f.type) IN
    /\ f.whole
    /\ cls # NoClass
    /\ cls._packet_group = "*" \/ cls._packet_group \in given_groups
    /\ f.body = "ok"
\* C12: the step that drops a frame (unknown type, rejected group) leaves the
\* receive loop reading the next frame, the connection open and every send
\* call as it was, and a valid frame handled after a drop has its hook run
C12_DropContinues ==
  [][/\ (DecodeStep /\ (Resolved = NoClass \/ ~GroupAccepted)) =>
          ( /\ pc'[RecvThread] = "len"
            /\ closed' = closed
            /\ sock_open' = sock_open
            /\ result' = result
            /\ on_close_calls' = on_close_calls )
     /\ (DecodeStep /\ Warned /\ ValidFrame(cur)) => HookRun]_vars

\* a frame was dropped and a frame that arrived after it was delivered
C12_Witness ==
  \E i, j \in 1 .. Len(events) :
    /\ i < j
    /\ events[i].ev = "warning"
    /\ events[j].ev = "on_recv"
    /\ events[j].frame.req_id > events[i].frame.req_id

\* C13: declaring a class whose identifier is already in the registry leaves
\* the registry as it was, so the identifier still resolves to the class that
\* was registered under it first and not to the new one
C13_FirstWins ==
  [][\A cls \in classes' \ classes :
       is_registered(registered_packets, alias_of(cls)) =>
         /\ registered_packets' = registered_packets
         /\ registry_get(registered_packets', alias_of(cls)) # cls]_vars

\* two packet classes with the same identifier are alive, both meant to be
\* registered: the identifier resolves to one of them
C13_Witness ==
  \E c1, c2 \in classes :
    /\ c1 # c2
    /\ alias_of(c1) = alias_of(c2)
    /\ c1.name # c2.name
    /\ c2.bases > 0 /\ ~c2._unregistered
    /\ registry_get(registered_packets, alias_of(c1)) = c1

\* C18: collecting a class that is not the one registered under its
\* identifier (a collision loser, a class with _unregistered) leaves the
\* registry as it was
C18_DiscardOtherKeepsRegistry ==
  [][\A cls \in classes \ classes' :
       registry_get(registered_packets, alias_of(cls)) # cls =>
         registered_packets' = registered_packets]_vars

\* C14: the 4-byte prefix of the frame send builds is the length of what
\* follows it, and parsing the frame gives back the request id, respond_to (or
\* None), the type identifier and the body that went in
C14_FrameRoundTrip ==
  /\ frame_bytes # << >> =>
       unpack_I(SubSeq(frame_bytes, 1, 4)) = Len(frame_bytes) - 4
  /\ frame_parsed # NoParsed =>
       /\ frame_parsed.packet_len = Len(frame_bytes) - 4
       /\ frame_parsed.req_id = frame_args.req_id
       /\ frame_parsed.response_to = frame_args.respond_to
       /\ frame_parsed.packet_type = frame_args.packet_name
       /\ frame_parsed.packet_msg = frame_args.packet_data

\* a frame with the longest type identifier, the highest request id and
\* respond_to = 0 has been built and parsed
C14_Witness ==
  /\ frame_parsed # NoParsed
  /\ Len(frame_args.packet_name) = MaxNameLen
  /\ frame_args.req_id = IdSpace - 1
  /\ frame_args.respond_to = 0

\* C15: decoding what encode made of an instance gives an instance of the
\* same class with the same public attributes, those that are None included
C15_PacketRoundTrip ==
  packet_decoded # NoPacket =>
    /\ packet_decoded.ok
    /\ packet_decoded.schema = packet.schema
    /\ packet_decoded.fields = packet.fields

\* a declared type that takes None, and a value that is of a declared type
IsOptional(t) == t = "Optional[int]"
Matches(v, t) ==
  \/ t = "int" /\ v.kind = "int"
  \/ t = "Optional[int]" /\ v.kind \in {"int", "none"}
  \/ t = "Tuple[int, int]" /\ v.kind = "tuple" /\ Len(v.items) = 2

\* C16: a call of a packet class succeeds exactly when every keyword is a
\* declared field, every value is of the declared type and every field left
\* out is optional; the instance then has None for the fields left out and
\* the given value for the others; a required field left out fails the call
\* as a missing field, a keyword that is not a field (everything else being
\* in order) as an unexpected one
C16_Construct ==
  packet # NoPacket =>
    LET supplied == dict_of(packet.kwargs)
        omitted == {a \in packet.schema : ~dict_has(supplied, a.key)}
        all_declared == \A kw \in supplied : dict_has(packet.schema, kw.key)
        all_match ==
          \A kw \in supplied :
            dict_has(packet.schema, kw.key) =>
              Matches(kw.value, dict_get(packet.schema, kw.key))
        omitted_optional == \A a \in omitted : IsOptional(a.value)
    IN /\ packet.ok <=> (all_declared /\ all_match /\ omitted_optional)
       /\ packet.ok =>
            packet.fields =
              supplied \cup {[key |-> a.key, value |-> None] : a \in omitted}
       /\ ~omitted_optional => (~packet.ok /\ packet.error = "MissingField")
       /\ (omitted_optional /\ all_match /\ ~all_declared) =>
            (~packet.ok /\ packet.error = "UnexpectedField")

\* a call that left out an optional field and gave the other one succeeded
C16_Witness ==
  /\ packet.ok
  /\ Len(packet.kwargs) = 1
  /\ \E item \in packet.fields : item.value = None

\* the hooks and callbacks among the events of the receive loop
HookIndexes ==
  {i \in 1 .. Len(events) : events[i].ev \in {"on_recv", "callback"}}

\* C17: hooks and callbacks run in the order in which their frames arrived
\* (the peer numbers its frames in the order it sends them); for one frame
\* the on_recv hook runs once and first, and a callback runs only for a frame
\* that is a response, after the hook of that frame and before anything is
\* run for a later frame
C17_ArrivalOrder ==
  /\ \A i, j \in HookIndexes :
       i < j =>
         /\ events[i].frame.req_id <= events[j].frame.req_id
         /\ events[i].frame.req_id = events[j].frame.req_id =>
              (events[i].ev = "on_recv" /\ events[j].ev = "callback")
  /\ \A j \in HookIndexes :
       events[j].ev = "callback" =>
         /\ events[j].frame.respond_to # NoId
         /\ \E i \in HookIndexes :
              i < j /\ events[i].ev = "on_recv" /\ events[i].frame = events[j].frame

\* a response had its hook and then its callback run, and a frame that
\* arrived later had its hook run after that
C17_Witness ==
  \E i, j, k \in HookIndexes :
    /\ i < j /\ j < k
    /\ events[i].ev = "on_recv"
    /\ events[j].ev = "callback" /\ events[j].frame = events[i].frame
    /\ events[k].ev = "on_recv"
    /\ events[k].frame.req_id > events[j].frame.req_id

\* C19: once the receive loop has found a callback under respond_to, its
\* next step runs that callback or does nothing; it does not fail and end the
\* receive thread, whatever other threads allocate in between
C19_DispatchSafe ==
  [][pc[RecvThread] = "invoke" => pc'[RecvThread] # "dead"]_vars

\* C20: no thread waits for the lock of the connection while holding it
\* itself (inside the close that called on_close)
C20_CloseTerminates ==
  \A t \in Threads : ~(lock = t /\ pc[t] \in {"close", "req_id"})

====
